---------------------------- MODULE Spec2Model ----------------------------
(***************************************************************************)
(* A model of signing_clients/apps.py (Python 2, POSIX): the manifest /    *)
(* signature text grammar (Section, Manifest, Signature), the entry        *)
(* ordering (file_key), the digest collection of JarExtractor and the      *)
(* assembly of the signed archive (make_signed).                           *)
(*                                                                         *)
(* Python 2 str values are byte strings: a text is a sequence of byte      *)
(* values (78 is "N", 10 is the newline).  Every text literal below has a   *)
(* comment that spells it.                                                 *)
(***************************************************************************)
EXTENDS Integers, Sequences, FiniteSets, TLC

(***************************************************************************)
(* Bounds of the model.                                                    *)
(***************************************************************************)
\* Section names "n" * k are serialised for every k up to MaxNameLen.
MaxNameLen == 150
\* Input archives hold at most MaxEntries entries.
MaxEntries == 2

(***************************************************************************)
(* Program constants.                                                      *)
(***************************************************************************)
\* apps.py:166 "if len(line) > 72" (the parser's limit on a physical line).
LineLimit == 72
\* apps.py:127-128 "entry += name[:72]; name = name[72:]" (the serialiser's chunk).
WrapWidth == 72

(***************************************************************************)
(* Byte strings.                                                           *)
(***************************************************************************)
\* Python's None where a byte string may stand: no byte string holds -1.
None == <<-1>>

\* No exception raised (yet).
NoException == "none"

\* "\n"
NL == <<10>>

\* str.isspace / the regex class \s for byte strings: " \t\n\v\f\r".
IsSpace(c) == c \in {32, 9, 10, 11, 12, 13}

\* str.lower() of a byte string.
Lower(s) == [i \in 1..Len(s) |-> IF s[i] >= 65 /\ s[i] <= 90 THEN s[i] + 32 ELSE s[i]]

\* str.upper() of a byte string.
Upper(s) == [i \in 1..Len(s) |-> IF s[i] >= 97 /\ s[i] <= 122 THEN s[i] - 32 ELSE s[i]]

\* s[k:] and s[:k] for 0 <= k.
Drop(s, k) == IF k >= Len(s) THEN <<>> ELSE SubSeq(s, k + 1, Len(s))
Take(s, k) == IF k >= Len(s) THEN s ELSE SubSeq(s, 1, k)

\* s[-k:] (the last k bytes, the whole of s when it is shorter).
Suffix(s, k) == IF k >= Len(s) THEN s ELSE SubSeq(s, Len(s) - k + 1, Len(s))

\* s.startswith(p)
StartsWith(s, p) == Len(p) <= Len(s) /\ SubSeq(s, 1, Len(p)) = p

\* str.rstrip(): the trailing whitespace removed.
Rstrip(s) ==
    LET keep == {i \in 1..Len(s) : ~IsSpace(s[i])}
    IN  IF keep = {} THEN <<>>
        ELSE SubSeq(s, 1, CHOOSE i \in keep : \A j \in keep : j <= i)

\* The number of leading whitespace bytes of s (what a greedy \s* consumes).
RECURSIVE LeadingSpaces(_)
LeadingSpaces(s) ==
    IF s = <<>> THEN 0
    ELSE IF IsSpace(s[1]) THEN 1 + LeadingSpaces(Tail(s))
    ELSE 0

\* Comparison of byte strings (Python 2 str comparison): -1, 0 or 1.
RECURSIVE StrCmp(_, _)
StrCmp(a, b) ==
    IF a = <<>> /\ b = <<>> THEN 0
    ELSE IF a = <<>> THEN -1
    ELSE IF b = <<>> THEN 1
    ELSE IF a[1] < b[1] THEN -1
    ELSE IF a[1] > b[1] THEN 1
    ELSE StrCmp(Tail(a), Tail(b))

\* The concatenation of a sequence of byte strings.
RECURSIVE Concat(_)
Concat(ss) == IF ss = <<>> THEN <<>> ELSE Head(ss) \o Concat(Tail(ss))

\* sep.join(ss)
RECURSIVE Join(_, _)
Join(sep, ss) ==
    IF ss = <<>> THEN <<>>
    ELSE IF Len(ss) = 1 THEN ss[1]
    ELSE ss[1] \o sep \o Join(sep, Tail(ss))

\* The index of the first newline of s, 0 when there is none.
FirstNL(s) ==
    LET at == {i \in 1..Len(s) : s[i] = 10}
    IN  IF at = {} THEN 0 ELSE CHOOSE i \in at : \A j \in at : i <= j

\* StringIO(buf).readlines(): the lines of buf, each with its newline; a last
\* line that has none is kept as it is.
RECURSIVE Readlines(_)
Readlines(buf) ==
    IF buf = <<>> THEN <<>>
    ELSE LET k == FirstNL(buf)
         IN  IF k = 0 THEN <<buf>>
             ELSE <<SubSeq(buf, 1, k)>> \o Readlines(Drop(buf, k))

\* itertools.chain(fest.readlines(), "\n" * 2): iterating the string "\n\n"
\* yields two one-byte lines.
ChainedLines(buf) == Readlines(buf) \o <<NL, NL>>

(***************************************************************************)
(* Library functions the program calls: base64 and hashlib.                *)
(***************************************************************************)
\* The base64 alphabet: the byte that encodes the 6-bit value v.
Enc6(v) ==
    IF v < 26 THEN 65 + v
    ELSE IF v < 52 THEN 97 + (v - 26)
    ELSE IF v < 62 THEN 48 + (v - 52)
    ELSE IF v = 62 THEN 43
    ELSE 47

\* binascii's table_a2b_base64: the 6-bit value of byte c, -1 when c is not of
\* the alphabet; the pad "=" is in the table, with value 0.
Dec6(c) ==
    IF c >= 65 /\ c <= 90 THEN c - 65
    ELSE IF c >= 97 /\ c <= 122 THEN c - 97 + 26
    ELSE IF c >= 48 /\ c <= 57 THEN c - 48 + 52
    ELSE IF c = 43 THEN 62
    ELSE IF c = 47 THEN 63
    ELSE IF c = 61 THEN 0
    ELSE -1

\* base64.b64encode(bs)
RECURSIVE B64Encode(_)
B64Encode(bs) ==
    IF bs = <<>> THEN <<>>
    ELSE IF Len(bs) = 1 THEN
        <<Enc6(bs[1] \div 4), Enc6((bs[1] % 4) * 16), 61, 61>>
    ELSE IF Len(bs) = 2 THEN
        <<Enc6(bs[1] \div 4), Enc6((bs[1] % 4) * 16 + bs[2] \div 16),
          Enc6((bs[2] % 16) * 4), 61>>
    ELSE
        <<Enc6(bs[1] \div 4), Enc6((bs[1] % 4) * 16 + bs[2] \div 16),
          Enc6((bs[2] % 16) * 4 + bs[3] \div 64), Enc6(bs[3] % 64)>>
        \o B64Encode(Drop(bs, 3))

\* binascii_find_valid(s + i, ., num): the (num+1)-th valid base64 byte of s
\* from index i on, -1 when there is none.
RECURSIVE FindValid(_, _, _)
FindValid(s, i, num) ==
    IF i > Len(s) THEN -1
    ELSE IF s[i] <= 127 /\ Dec6(s[i]) # -1 THEN
        IF num = 0 THEN s[i] ELSE FindValid(s, i + 1, num - 1)
    ELSE FindValid(s, i + 1, num)

\* The loop of binascii.a2b_base64 from index i on: bytes outside the alphabet
\* are skipped, a pad sequence ends the input, and bits left over at the end
\* are "Incorrect padding".
RECURSIVE B64Scan(_, _, _, _, _, _)
B64Scan(s, i, quad, leftchar, leftbits, out) ==
    IF i > Len(s) THEN [ok |-> leftbits = 0, val |-> out]
    ELSE LET c == s[i] IN
        IF c > 127 \/ c \in {13, 10, 32} THEN
            B64Scan(s, i + 1, quad, leftchar, leftbits, out)
        ELSE IF c = 61 THEN
            IF quad < 2 \/ (quad = 2 /\ FindValid(s, i, 1) # 61) THEN
                B64Scan(s, i + 1, quad, leftchar, leftbits, out)
            ELSE [ok |-> TRUE, val |-> out]
        ELSE IF Dec6(c) = -1 THEN
            B64Scan(s, i + 1, quad, leftchar, leftbits, out)
        ELSE LET lc == leftchar * 64 + Dec6(c)
                 lb == leftbits + 6
             IN  IF lb >= 8 THEN
                     B64Scan(s, i + 1, (quad + 1) % 4, lc % (2 ^ (lb - 8)), lb - 8,
                             Append(out, (lc \div (2 ^ (lb - 8))) % 256))
                 ELSE B64Scan(s, i + 1, (quad + 1) % 4, lc, lb, out)

\* base64.b64decode(s): [ok |-> FALSE] stands for the TypeError it raises.
B64Decode(s) == B64Scan(s, 1, 0, 0, 0, <<>>)

\* hashlib is not part of the program; a digest is modelled as a fixed function
\* of the data that has the digest's length and depends on every byte.
RECURSIVE Mix(_, _, _)
Mix(data, lo, hi) ==
    IF lo > hi THEN 7
    ELSE IF lo = hi THEN (data[lo] * 31 + lo) % 65521
    ELSE LET mid == (lo + hi) \div 2
         IN  (Mix(data, lo, mid) * 127 + Mix(data, mid + 1, hi) + 1) % 65521

\* hashlib.md5(data).digest(): 16 bytes.
Md5(data) == LET h == Mix(data, 1, Len(data))
             IN  [i \in 1..16 |-> (h * (i + 2) + i) % 256]

\* hashlib.sha1(data).digest(): 20 bytes.
Sha1(data) == LET h == Mix(data, 1, Len(data))
              IN  [i \in 1..20 |-> (h * (i + 5) + 3 * i + 1) % 256]

\* The dict keys 'md5' and 'sha1'.
K_md5 == <<109,100,53>>
K_sha1 == <<115,104,97,49>>

\* _digest(data): {'md5': md5.digest(), 'sha1': sha1.digest()}
Digest(data) == (K_md5 :> Md5(data)) @@ (K_sha1 :> Sha1(data))

\* sorted(d.keys()) of a dict d keyed by byte strings.
RECURSIVE SortedKeysOf(_)
SortedKeysOf(ks) ==
    IF ks = {} THEN <<>>
    ELSE LET m == CHOOSE x \in ks : \A y \in ks : StrCmp(x, y) <= 0
         IN  <<m>> \o SortedKeysOf(ks \ {m})
SortedKeys(d) == SortedKeysOf(DOMAIN d)

\* The empty dict {}.
EmptyDict == [k \in {} |-> <<>>]

(***************************************************************************)
(* Section, Manifest, Signature: the data model and its serialisation.     *)
(***************************************************************************)
\* Section(name, algos, digests): name is a byte string, algos a tuple of byte
\* strings, digests a dict from algorithm name to digest bytes.
Section(name, algos, digests) ==
    [name |-> name, algos |-> algos, digests |-> digests]

\* Section.__init__'s default for algos: ('md5', 'sha1').
DefaultAlgos == <<K_md5, K_sha1>>

\* "Name: "
T_NameColon == <<78,97,109,101,58,32>>
\* "Digest-Algorithms:"
T_DigestAlgorithms == <<68,105,103,101,115,116,45,65,108,103,111,114,105,116,104,109,115,58>>
\* "-Digest: "
T_Digest == <<45,68,105,103,101,115,116,58,32>>
\* "-Digest-Manifest: "
T_DigestManifest == <<45,68,105,103,101,115,116,45,77,97,110,105,102,101,115,116,58,32>>
\* "-Version: "
T_Version == <<45,86,101,114,115,105,111,110,58,32>>
\* "Manifest" and "Signature": type(self).__name__.title()
T_Manifest == <<77,97,110,105,102,101,115,116>>
T_Signature == <<83,105,103,110,97,116,117,114,101>>
\* Manifest.version: '1.0'
T_1_0 == <<49,46,48>>

\* The while loop of Section.__str__ (apps.py:126-130): the text is cut into
\* chunks of 72 bytes, and "\n " is put between two chunks.
RECURSIVE WrapName(_)
WrapName(name) ==
    IF name = <<>> THEN <<>>
    ELSE Take(name, WrapWidth)
         \o (IF Drop(name, WrapWidth) # <<>> THEN <<10, 32>> ELSE <<>>)
         \o WrapName(Drop(name, WrapWidth))

\* Section.__str__ for a str (byte string) name
SectionStr(sec) ==
    LET order == SortedKeys(sec.digests)
        algos == Concat([i \in 1..Len(order) |-> <<32>> \o Upper(order[i])])
    IN  WrapName(T_NameColon \o sec.name)
        \o NL
        \o T_DigestAlgorithms \o algos \o NL
        \o Concat([i \in 1..Len(order) |->
                     Upper(order[i]) \o T_Digest
                     \o B64Encode(sec.digests[order[i]]) \o NL])

\* A Manifest or Signature object: the list of its Sections and the attributes
\* the class or the constructor's keyword arguments give it.  An object without
\* a digest_manifests attribute of its own has the class default, {}.
ManifestObj(klass, sections, extra_newline, digest_manifests, omit) ==
    [klass |-> klass, sections |-> sections, extra_newline |-> extra_newline,
     digest_manifests |-> digest_manifests, omit_individual_sections |-> omit]

\* No Manifest object: Python's None where a Manifest may stand.
NoManifest == ManifestObj("None", <<>>, FALSE, EmptyDict, FALSE)

\* Manifest(items, extra_newline=...)
NewManifest(sections, extra_newline) ==
    ManifestObj("Manifest", sections, extra_newline, EmptyDict, FALSE)

\* Manifest.header
ManifestHeader(m) ==
    (IF m.klass = "Signature" THEN T_Signature ELSE T_Manifest)
    \o T_Version \o T_1_0

\* Signature.digest_manifest
DigestManifestLines(m) ==
    LET order == SortedKeys(m.digest_manifests)
    IN  [i \in 1..Len(order) |->
           Upper(order[i]) \o T_DigestManifest
           \o B64Encode(m.digest_manifests[order[i]])]

\* Signature.header
SignatureHeader(m) ==
    Join(NL, <<ManifestHeader(m)>> \o DigestManifestLines(m)
             \o (IF m.extra_newline THEN << <<>> >> ELSE <<>>))

\* self.header: the property of the object's class
Header(m) == IF m.klass = "Signature" THEN SignatureHeader(m) ELSE ManifestHeader(m)

\* Manifest.body
Body(m) == Join(NL, [i \in 1..Len(m.sections) |-> SectionStr(m.sections[i])])

\* Manifest.__str__
ManifestStr(m) ==
    Join(NL, <<Header(m), <<>>, Body(m)>>
             \o (IF m.extra_newline THEN << <<>> >> ELSE <<>>))

\* A Signature.__str__ that does not look at omit_individual_sections.
SignatureStrWithSections(m) == ManifestStr(m)

\* Signature.__str__
SignatureStr(m) ==
    IF m.omit_individual_sections THEN Header(m) \o NL ELSE ManifestStr(m)

\* str(m)
Str(m) == IF m.klass = "Signature" THEN SignatureStr(m) ELSE ManifestStr(m)

(***************************************************************************)
(* Manifest.parse: the regular expressions and one iteration of the loop.  *)
(***************************************************************************)
\* 'name' and 'digest-algorithms'
K_name == <<110,97,109,101>>
K_digest_algorithms == <<100,105,103,101,115,116,45,97,108,103,111,114,105,116,104,109,115>>

\* The header names headers_re accepts, lower-cased (apps.py:28-33):
\* 'manifest-version', 'signature-version', 'name', 'digest-algorithms',
\* 'md5-digest', 'sha1-digest', 'md5-digest-manifest', 'sha1-digest-manifest'
HeaderNames ==
    {<<109,97,110,105,102,101,115,116,45,118,101,114,115,105,111,110>>,
     <<115,105,103,110,97,116,117,114,101,45,118,101,114,115,105,111,110>>,
     K_name,
     K_digest_algorithms,
     <<109,100,53,45,100,105,103,101,115,116>>,
     <<115,104,97,49,45,100,105,103,101,115,116>>,
     <<109,100,53,45,100,105,103,101,115,116,45,109,97,110,105,102,101,115,116>>,
     <<115,104,97,49,45,100,105,103,101,115,116,45,109,97,110,105,102,101,115,116>>}

\* The keys of the dict "item": 'algos' and 'digests' ('name' is K_name).
K_algos == <<97,108,103,111,115>>
K_digests == <<100,105,103,101,115,116,115>>

\* '-version', '-digest-manifest', '-digest'
S_version == <<45,118,101,114,115,105,111,110>>
S_digest_manifest == <<45,100,105,103,101,115,116,45,109,97,110,105,102,101,115,116>>
S_digest == <<45,100,105,103,101,115,116>>

\* Whether header name k, then \s*, then ":" is a prefix of line (re.I: the
\* case of the line's letters does not matter).
HeaderAt(line, k) ==
    /\ StartsWith(Lower(line), k)
    /\ LET rest == Drop(line, Len(k))
           after == Drop(rest, LeadingSpaces(rest))
       IN  after # <<>> /\ after[1] = 58

\* headers_re.match(line): group(1) lower-cased and group(2), the text after
\* the colon and the whitespace that follows it.
MatchHeader(line) ==
    IF \E k \in HeaderNames : HeaderAt(line, k) THEN
        LET k == CHOOSE k \in HeaderNames : HeaderAt(line, k)
            rest == Drop(line, Len(k))
            after == Drop(rest, LeadingSpaces(rest) + 1)
        IN  [ok |-> TRUE, header |-> Lower(SubSeq(line, 1, Len(k))),
             value |-> Drop(after, LeadingSpaces(after))]
    ELSE [ok |-> FALSE, header |-> <<>>, value |-> <<>>]

\* directory_re.search(value): value ends in "\" or "/".
IsDirectory(value) == value # <<>> /\ value[Len(value)] \in {92, 47}

\* re.split('\s*', s) in Python 2, which does not split on an empty match:
\* s is split at every run of whitespace.
RECURSIVE SplitWs(_, _)
SplitWs(s, cur) ==
    IF s = <<>> THEN <<cur>>
    ELSE IF IsSpace(s[1]) THEN
        <<cur>> \o SplitWs(Drop(s, LeadingSpaces(s)), <<>>)
    ELSE SplitWs(Tail(s), Append(cur, s[1]))

\* The local variables of Manifest.parse; exc is the exception raised,
\* NoException while there is none.
Locals(lineno, items, item, header, kwargs, exc) ==
    [lineno |-> lineno, items |-> items, item |-> item, header |-> header,
     kwargs |-> kwargs, exc |-> exc]

\* Section(item.pop('name'), **item): a KeyError when item has no 'name'.
SectionOfItem(item) ==
    Section(item[K_name],
            IF K_algos \in DOMAIN item THEN item[K_algos] ELSE DefaultAlgos,
            IF K_digests \in DOMAIN item THEN item[K_digests] ELSE EmptyDict)

\* d[k] = v
DictSet(d, k, v) == (k :> v) @@ d

\* apps.py:169-175: the end of a section.
EndOfSection(loc) ==
    IF DOMAIN loc.item # {} THEN
        IF K_name \in DOMAIN loc.item THEN
            [loc EXCEPT !.items = Append(@, SectionOfItem(loc.item)),
                        !.item = EmptyDict, !.header = <<>>]
        ELSE [loc EXCEPT !.exc = "KeyError"]
    ELSE [loc EXCEPT !.header = <<>>]

\* A continuation that appends the whole line, its leading space included
\* (group(0) for group(1)).
ContinuationKeepsSpace(loc, line) ==
    IF loc.header = <<>> THEN [loc EXCEPT !.exc = "ParsingError"]
    ELSE IF loc.header \in DOMAIN loc.item THEN
        [loc EXCEPT !.item = DictSet(@, loc.header, @[loc.header] \o line)]
    ELSE [loc EXCEPT !.exc = "KeyError"]

\* apps.py:177-184: a continuation line; item[header] += continued.group(1).
Continuation(loc, line) ==
    IF loc.header = <<>> THEN [loc EXCEPT !.exc = "ParsingError"]
    ELSE IF loc.header \in DOMAIN loc.item THEN
        [loc EXCEPT !.item = DictSet(@, loc.header, @[loc.header] \o Tail(line))]
    ELSE [loc EXCEPT !.exc = "KeyError"]

\* apps.py:185-211: a header line.
HeaderLine(loc, line) ==
    LET m == MatchHeader(line)
        header == m.header
        value == m.value
        l1 == [loc EXCEPT !.header = header]
    IN  IF ~m.ok THEN [loc EXCEPT !.exc = "ParsingError"]
        ELSE IF Suffix(header, 8) = S_version THEN l1
        ELSE IF Suffix(header, 16) = S_digest_manifest THEN
            LET d == B64Decode(value)
                old == IF "digest_manifests" \in DOMAIN loc.kwargs
                       THEN loc.kwargs["digest_manifests"] ELSE EmptyDict
            IN  IF ~d.ok THEN [l1 EXCEPT !.exc = "TypeError"]
                ELSE [l1 EXCEPT !.kwargs =
                        [digest_manifests |->
                           DictSet(old, Take(header, Len(header) - 16), d.val)]]
        ELSE IF header = K_name THEN
            IF IsDirectory(value) THEN l1
            ELSE [l1 EXCEPT !.item = DictSet(@, K_name, value)]
        ELSE IF header = K_digest_algorithms THEN
            [l1 EXCEPT !.item = DictSet(@, K_algos, SplitWs(Lower(value), <<>>))]
        ELSE IF Suffix(header, 7) = S_digest THEN
            LET d == B64Decode(value)
                old == IF K_digests \in DOMAIN loc.item
                       THEN loc.item[K_digests] ELSE EmptyDict
            IN  IF ~d.ok THEN [l1 EXCEPT !.exc = "TypeError"]
                ELSE [l1 EXCEPT !.item =
                        DictSet(@, K_digests,
                                DictSet(old, Take(header, Len(header) - 7), d.val))]
        ELSE l1

\* An iteration whose length test is off by one ("> 73" for "> 72").
IterationOffByOne(loc, raw) ==
    LET l0 == [loc EXCEPT !.lineno = @ + 1]
        line == Rstrip(raw)
    IN  IF Len(line) > LineLimit + 1 THEN [l0 EXCEPT !.exc = "ParsingError"]
        ELSE IF line = <<>> THEN EndOfSection(l0)
        ELSE IF line[1] = 32 THEN Continuation(l0, line)
        ELSE HeaderLine(l0, line)

\* One iteration of the for loop of Manifest.parse (apps.py:163-211) on the
\* physical line raw.
Iteration(loc, raw) ==
    LET l0 == [loc EXCEPT !.lineno = @ + 1]
        line == Rstrip(raw)
    IN  IF Len(line) > LineLimit THEN [l0 EXCEPT !.exc = "ParsingError"]
        ELSE IF line = <<>> THEN EndOfSection(l0)
        ELSE IF line[1] = 32 THEN Continuation(l0, line)
        ELSE HeaderLine(l0, line)

\* The whole of Manifest.parse(buf), from line i of lines on: the locals when
\* the loop ends or an exception is raised.
RECURSIVE ParseFrom(_, _)
ParseFrom(loc, lines) ==
    IF loc.exc # NoException \/ loc.lineno >= Len(lines) THEN loc
    ELSE ParseFrom(Iteration(loc, lines[loc.lineno + 1]), lines)

\* The locals at the start of Manifest.parse (apps.py:155-159).
InitialLocals == Locals(0, <<>>, EmptyDict, <<>>, EmptyDict, NoException)

\* apps.py:212-214: klass(items, **kwargs) for klass = Manifest.
ParsedManifest(loc) ==
    ManifestObj("Manifest", loc.items, FALSE,
                IF "digest_manifests" \in DOMAIN loc.kwargs
                THEN loc.kwargs["digest_manifests"] ELSE EmptyDict,
                FALSE)

(***************************************************************************)
(* Archives, the entry ordering and the denylist.                          *)
(***************************************************************************)
\* A ZipInfo with the data of its entry.
Entry(filename, data) == [filename |-> filename, data |-> data]

\* ZipFile.read(name): NameToInfo keeps the last entry of a name.
Read(zfile, filename) ==
    LET at == {i \in 1..Len(zfile) : zfile[i].filename = filename}
    IN  zfile[CHOOSE i \in at : \A j \in at : j <= i].data

\* What is left of s once its trailing "/" are removed (head.rstrip('/')).
RstripSlash(s) ==
    LET keep == {i \in 1..Len(s) : s[i] # 47}
    IN  IF keep = {} THEN <<>>
        ELSE SubSeq(s, 1, CHOOSE i \in keep : \A j \in keep : j <= i)

\* p.rfind(c) + 1: the index (from 1) of the last byte c of p, 0 without one.
LastIndexOf(p, c) ==
    LET at == {i \in 1..Len(p) : p[i] = c}
    IN  IF at = {} THEN 0 ELSE CHOOSE i \in at : \A j \in at : j <= i

\* posixpath.split(p): <<head, tail>>
PathSplit(p) ==
    LET i == LastIndexOf(p, 47)
        head == Take(p, i)
        tail == Drop(p, i)
    IN  <<IF head # <<>> /\ RstripSlash(head) # <<>> THEN RstripSlash(head) ELSE head,
          tail>>

\* posixpath.basename(p)
Basename(p) == Drop(p, LastIndexOf(p, 47))

\* posixpath.splitext(p)[0]: p without its extension; the leading dots of the
\* file name start no extension.
SplitextRoot(p) ==
    LET sep == LastIndexOf(p, 47)
        dot == LastIndexOf(p, 46)
    IN  IF dot > sep /\ \E i \in (sep + 1)..(dot - 1) : p[i] # 46
        THEN Take(p, dot - 1) ELSE p

\* 'install.rdf', "icon.png" and "LICENSE"
F_install_rdf == <<105,110,115,116,97,108,108,46,114,100,102>>
F_icon_png == <<105,99,111,110,46,112,110,103>>
F_LICENSE == <<76,73,67,69,78,83,69>>

\* prio of file_key (apps.py:77-83): 1 for 'install.rdf'; 2 for
\* "chrome.manifest", "icon.png", "icon64.png"; 5 for "MPL", "GPL", "LGPL",
\* "COPYING", "LICENSE", "license.txt"; 4 otherwise.
Priority(name) ==
    IF name = F_install_rdf THEN 1
    ELSE IF name \in {<<99,104,114,111,109,101,46,109,97,110,105,102,101,115,116>>,
                      F_icon_png,
                      <<105,99,111,110,54,52,46,112,110,103>>} THEN 2
    ELSE IF name \in {<<77,80,76>>, <<71,80,76>>, <<76,71,80,76>>,
                      <<67,79,80,89,73,78,71>>, F_LICENSE,
                      <<108,105,99,101,110,115,101,46,116,120,116>>} THEN 5
    ELSE 4

\* "%d-%s-%s" % (prio, head, tail): "%d" of a one-digit number, and "-" is 45.
KeyText(prio, head, tail) == <<48 + prio>> \o <<45>> \o head \o <<45>> \o tail

\* A file_key that gives every name the priority 4.
file_keyWithoutPriority(zinfo) ==
    LET parts == PathSplit(Lower(zinfo.filename))
    IN  KeyText(4, parts[1], parts[2])

\* file_key(zinfo)
file_key(zinfo) ==
    LET name == zinfo.filename
        parts == PathSplit(Lower(name))
    IN  KeyText(Priority(name), parts[1], parts[2])

\* sorted(filelist, key=file_key): a stable sort, entries of equal key keep
\* their order.
RECURSIVE InsertByKey(_, _)
InsertByKey(srt, e) ==
    IF srt = <<>> THEN <<e>>
    ELSE IF StrCmp(file_key(srt[Len(srt)]), file_key(e)) <= 0 THEN Append(srt, e)
    ELSE Append(InsertByKey(SubSeq(srt, 1, Len(srt) - 1), e), srt[Len(srt)])

RECURSIVE SortedByKey(_)
SortedByKey(filelist) ==
    IF filelist = <<>> THEN <<>>
    ELSE InsertByKey(SortedByKey(SubSeq(filelist, 1, Len(filelist) - 1)),
                     filelist[Len(filelist)])

\* fnmatch.fnmatchcase(name, pat) for a pattern of literal bytes, "*" and "?":
\* "*" matches any bytes, "/" and newlines too.
RECURSIVE Glob(_, _)
Glob(name, pat) ==
    IF pat = <<>> THEN name = <<>>
    ELSE IF pat[1] = 42 THEN
        \E k \in 0..Len(name) : Glob(Drop(name, k), Tail(pat))
    ELSE /\ name # <<>>
         /\ (pat[1] = 63 \/ pat[1] = name[1])
         /\ Glob(Tail(name), Tail(pat))

\* os.path.normcase on POSIX (posixpath.normcase): the path as it is.
Normcase(s) == s

\* fnmatch.fnmatch(name, pat)
Fnmatch(name, pat) == Glob(Normcase(name), Normcase(pat))

\* The denylist of ignore_certain_metainf_files (apps.py:58-62):
\* "META-INF/manifest.mf", "META-INF/*.sf", "META-INF/*.rsa", "META-INF/*.dsa",
\* "META-INF/ids.json"
Ignore ==
    {<<77,69,84,65,45,73,78,70,47,109,97,110,105,102,101,115,116,46,109,102>>,
     <<77,69,84,65,45,73,78,70,47,42,46,115,102>>,
     <<77,69,84,65,45,73,78,70,47,42,46,114,115,97>>,
     <<77,69,84,65,45,73,78,70,47,42,46,100,115,97>>,
     <<77,69,84,65,45,73,78,70,47,105,100,115,46,106,115,111,110>>}

\* ignore_certain_metainf_files(filename)
ignore_certain_metainf_files(filename) ==
    \E glob \in Ignore : Fnmatch(filename, glob)

(***************************************************************************)
(* The inputs of the grammar: Manifest objects to serialise and texts to   *)
(* parse.                                                                  *)
(***************************************************************************)
\* "n" * k
NameOfLen(k) == [i \in 1..k |-> 110]

\* A Section as JarExtractor's mksection builds it (apps.py:277-281).
MkSection(data, fname) == Section(fname, DefaultAlgos, Digest(data))

\* "f", "d/" and a name whose "Name: " line is cut after a blank: 65 "n", " nn"
N_f == <<102>>
N_dir == <<100,47>>
N_blank == NameOfLen(65) \o <<32,110,110>>

\* One-Section Manifests whose names have every length up to MaxNameLen.
WrapManifests ==
    { NewManifest(<<MkSection(<<k % 256>>, NameOfLen(k))>>, FALSE) :
        k \in 0..MaxNameLen }

\* The Manifest of test-jar-like archives: no Section, one, two (the second
\* name is wrapped), one with a single digest, one with none, one with
\* extra_newline, one whose name holds a blank where the line is cut.
M_empty == NewManifest(<<>>, FALSE)
M_one == NewManifest(<<MkSection(<<1>>, N_f)>>, FALSE)
M_two == NewManifest(<<MkSection(<<1>>, N_f), MkSection(<<2>>, NameOfLen(70))>>, FALSE)
M_md5 == NewManifest(<<Section(N_f, <<K_md5>>, (K_md5 :> Md5(<<1>>)))>>, FALSE)
M_nodigest == NewManifest(<<Section(N_f, DefaultAlgos, EmptyDict)>>, FALSE)
M_extra == NewManifest(<<MkSection(<<1>>, N_f)>>, TRUE)
M_blank == NewManifest(<<MkSection(<<1>>, N_blank)>>, FALSE)
M_dir == NewManifest(<<MkSection(<<1>>, N_dir), MkSection(<<2>>, N_f)>>, FALSE)

\* A Signature over M_one, with its Sections written out.
S_one ==
    ManifestObj("Signature",
                <<MkSection(SectionStr(M_one.sections[1]), N_f)>>,
                FALSE, Digest(ManifestStr(M_one)), FALSE)

ObjectManifests ==
    WrapManifests \cup {M_empty, M_one, M_two, M_md5, M_nodigest, M_extra, M_blank}

\* The lines of a text, without their newlines.
TextLines(text) ==
    LET ls == Readlines(text)
    IN  [i \in 1..Len(ls) |->
           IF ls[i] # <<>> /\ ls[i][Len(ls[i])] = 10
           THEN SubSeq(ls[i], 1, Len(ls[i]) - 1) ELSE ls[i]]

\* The text of a sequence of lines, each ended by a newline.
LinesText(ls) == Concat([i \in 1..Len(ls) |-> ls[i] \o NL])

\* The texts the edits start from: what this serialiser writes for M_one, M_two
\* and S_one, and a hand-written manifest whose first section names a directory.
BaseText(b) ==
    CASE b = 1 -> Str(M_one)
      [] b = 2 -> Str(M_two)
      [] b = 3 -> Str(S_one)
      [] OTHER -> Str(M_dir)

\* Lines a producer other than this serialiser may write.
\* " x": a continuation line
L_cont == <<32,120>>
\* "Name: " and 67 "n": 73 bytes, none of them whitespace
L_long == T_NameColon \o NameOfLen(67)
\* "Name: g" and 70 blanks: 77 bytes, 7 of them before the trailing whitespace
L_longws == <<78,97,109,101,58,32,103>> \o [i \in 1..70 |-> 32]
\* "Name: d/"
L_dir == <<78,97,109,101,58,32,100,47>>
\* "bogus"
L_bogus == <<98,111,103,117,115>>
\* "Digest-Algorithms: SHA1 MD5"
L_algos == <<68,105,103,101,115,116,45,65,108,103,111,114,105,116,104,109,115,58,32,83,72,65,49,32,77,68,53>>
\* "MD5-Digest: A": not base64
L_badb64 == <<77,68,53,45,68,105,103,101,115,116,58,32,65>>

InsertPool == {L_cont, L_long, L_longws, L_dir, L_bogus, <<>>, L_badb64}
ReplacePool == {L_dir, L_algos}

\* One edit of a sequence of lines: a line put in after line k, line k
\* replaced, lines k and k+1 exchanged.
Edit(ls, op, k, line) ==
    CASE op = "ins" -> SubSeq(ls, 1, k) \o <<line>> \o SubSeq(ls, k + 1, Len(ls))
      [] op = "rep" -> [ls EXCEPT ![k] = line]
      [] op = "swap" -> [ls EXCEPT ![k] = ls[k + 1], ![k + 1] = ls[k]]
      [] OTHER -> ls

\* An input: a Manifest object to serialise and parse back (kind "object"), or
\* a text to parse and serialise back (kind "text": base b after one edit).
Input(kind, man, b, op, k, line) ==
    [kind |-> kind, man |-> man, base |-> b, op |-> op, k |-> k, line |-> line]

ObjectInputs == { Input("object", m, 0, "none", 0, <<>>) : m \in ObjectManifests }

TextInputsOf(b) ==
    LET n == Len(TextLines(BaseText(b)))
    IN  {Input("text", M_empty, b, "none", 0, <<>>)}
        \cup { Input("text", M_empty, b, "ins", k, l) : k \in 0..n, l \in InsertPool }
        \cup { Input("text", M_empty, b, "rep", k, l) : k \in 1..n, l \in ReplacePool }
        \cup { Input("text", M_empty, b, "swap", k, <<>>) : k \in 1..(n - 1) }

TextInputs == UNION { TextInputsOf(b) : b \in 1..4 }

\* The text of a "text" input.
InputText(in) == LinesText(Edit(TextLines(BaseText(in.base)), in.op, in.k, in.line))

(***************************************************************************)
(* The state.                                                              *)
(***************************************************************************)
VARIABLES
    input,    \* the input of the grammar run
    pc,       \* where the grammar run is
    buf,      \* the text handed to Manifest.parse
    lines,    \* itertools.chain(fest.readlines(), "\n" * 2)
    loc,      \* the local variables of Manifest.parse
    parsed,   \* the Manifest that Manifest.parse returned
    out,      \* str(parsed)
    zin,      \* the archive at self.inpath
    fs,       \* the file at OutPath: whether it exists, and its entries
    jpc,      \* where the signing run is
    self,     \* the JarExtractor
    jexc,     \* the exception make_signed raised
    args      \* the outpath and sigpath arguments of the make_signed call

pvars == <<input, pc, buf, lines, loc, parsed, out>>
jvars == <<zin, fs, jpc, self, jexc, args>>
vars == <<pvars, jvars>>

(***************************************************************************)
(* The grammar run: str(manifest), Manifest.parse, str(parsed).            *)
(***************************************************************************)
ParseInit ==
    /\ input \in ObjectInputs \cup TextInputs
    /\ pc = (IF input.kind = "object" THEN "object" ELSE "text")
    /\ buf = (IF input.kind = "object" THEN <<>> ELSE InputText(input))
    /\ lines = <<>>
    /\ loc = InitialLocals
    /\ parsed = NoManifest
    /\ out = <<>>

\* str(manifest) of the Manifest object of the input.
WriteManifest ==
    /\ pc = "object"
    /\ buf' = Str(input.man)
    /\ pc' = "text"
    /\ UNCHANGED <<input, lines, loc, parsed, out>>
    /\ UNCHANGED jvars

\* Manifest.parse(buf) up to its loop (apps.py:149-163).
ParseCall ==
    /\ pc = "text"
    /\ lines' = ChainedLines(buf)
    /\ loc' = InitialLocals
    /\ pc' = "parse"
    /\ UNCHANGED <<input, buf, parsed, out>>
    /\ UNCHANGED jvars

\* One iteration of the loop; an exception ends the call.
ParseLine ==
    /\ pc = "parse"
    /\ loc.lineno < Len(lines)
    /\ loc' = Iteration(loc, lines[loc.lineno + 1])
    /\ pc' = (IF loc'.exc # NoException THEN "raised" ELSE "parse")
    /\ UNCHANGED <<input, buf, lines, parsed, out>>
    /\ UNCHANGED jvars

\* The return of Manifest.parse (apps.py:212-214).
ParseReturn ==
    /\ pc = "parse"
    /\ loc.lineno = Len(lines)
    /\ parsed' = ParsedManifest(loc)
    /\ pc' = "parsed"
    /\ UNCHANGED <<input, buf, lines, loc, out>>
    /\ UNCHANGED jvars

\* str(parsed)
StrParsed ==
    /\ pc = "parsed"
    /\ out' = Str(parsed)
    /\ pc' = "done"
    /\ UNCHANGED <<input, buf, lines, loc, parsed>>
    /\ UNCHANGED jvars

ParseNext == WriteManifest \/ ParseCall \/ ParseLine \/ ParseReturn \/ StrParsed

(***************************************************************************)
(* JarExtractor.                                                           *)
(***************************************************************************)
\* 'META-INF/ids.json', 'META-INF/manifest.mf', 'META-INF', ".rsa", ".sf"
P_ids_json == <<77,69,84,65,45,73,78,70,47,105,100,115,46,106,115,111,110>>
P_manifest_mf == <<77,69,84,65,45,73,78,70,47,109,97,110,105,102,101,115,116,46,109,102>>
P_META_INF == <<77,69,84,65,45,73,78,70>>
X_rsa == <<46,114,115,97>>
X_sf == <<46,115,102>>

\* "if x:" for a byte string or None.
Truthy(x) == x # None /\ x # <<>>

\* "if not m:" for a Manifest (a list) or None.
Falsy(m) == m.klass = "None" \/ m.sections = <<>>

\* The loop of JarExtractor.__init__ (apps.py:283-289): the Sections of the
\* entries of zfile.
RECURSIVE SectionsOf(_, _)
SectionsOf(zfile, srt) ==
    IF srt = <<>> THEN <<>>
    ELSE LET f == Head(srt)
         IN  (IF IsDirectory(f.filename) \/ ignore_certain_metainf_files(f.filename)
              THEN <<>>
              ELSE <<MkSection(Read(zfile, f.filename), f.filename)>>)
             \o SectionsOf(zfile, Tail(srt))

\* JarExtractor(path, outpath, ids, omit_signature_sections, extra_newlines):
\* the object after __init__; zfile is the archive at path (zin).  The fields digests,
\* manifest and sig are the attributes _digests, _manifest and _sig.
JarExtractor(zfile, outpath, ids, omit_signature_sections, extra_newlines) ==
    [outpath |-> outpath,
     digests |-> SectionsOf(zfile, SortedByKey(zfile))
                 \o (IF Truthy(ids) THEN <<MkSection(ids, P_ids_json)>> ELSE <<>>),
     omit_sections |-> omit_signature_sections,
     extra_newlines |-> extra_newlines,
     manifest |-> NoManifest,
     sig |-> NoManifest,
     ids |-> ids]

\* JarExtractor._sign(item)
Sign(item) == Section(item.name, DefaultAlgos, Digest(SectionStr(item)))

\* The property JarExtractor.manifest: its value.
ManifestProp(this) ==
    IF Falsy(this.manifest) THEN NewManifest(this.digests, this.extra_newlines)
    ELSE this.manifest

\* The property JarExtractor.signatures: its value.
SignaturesProp(this) ==
    IF Falsy(this.sig) THEN
        ManifestObj("Signature",
                    [i \in 1..Len(this.digests) |-> Sign(this.digests[i])],
                    this.extra_newlines,
                    Digest(Str(ManifestProp(this))),
                    this.omit_sections)
    ELSE this.sig

\* The property JarExtractor.signature: its value.
SignatureProp(this) == Header(SignaturesProp(this)) \o NL

\* this after the property manifest was read: _manifest is kept.
AfterManifest(this) == [this EXCEPT !.manifest = ManifestProp(this)]

\* this after the property signatures was read: _sig and _manifest are kept.
AfterSignatures(this) ==
    [AfterManifest(this) EXCEPT !.sig = SignaturesProp(this)]

\* apps.py:331-335: 'META-INF/' and the file name of sigpath without its
\* extension.
NormalizedSigpath(sigpath) ==
    P_META_INF \o <<47>> \o SplitextRoot(Basename(sigpath))

\* The entries of zfile make_signed copies, in the order given (apps.py:343-348).
RECURSIVE Copied(_, _)
Copied(zfile, order) ==
    IF order = <<>> THEN <<>>
    ELSE LET f == Head(order)
         IN  (IF ignore_certain_metainf_files(f.filename) THEN <<>>
              ELSE <<Entry(f.filename, Read(zfile, f.filename))>>)
             \o Copied(zfile, Tail(order))

\* What make_signed writes to zout, the copied entries taken in the order
\* "order" (apps.py:342-352).
Written(this, zfile, order, signature, sigpath) ==
    <<Entry(sigpath \o X_rsa, signature)>>
    \o Copied(zfile, order)
    \o <<Entry(P_manifest_mf, Str(ManifestProp(this))),
         Entry(sigpath \o X_sf, Str(SignaturesProp(this)))>>
    \o (IF this.ids # None THEN <<Entry(P_ids_json, this.ids)>> ELSE <<>>)

\* sorted(zfile.infolist()): ZipInfo defines no comparison, and Python 2 then
\* orders objects of one type by their addresses: any order of the entries is
\* a possible result.
SortedInfolists(zfile) ==
    { [i \in 1..Len(zfile) |-> zfile[perm[i]]] : perm \in Permutations(1..Len(zfile)) }

\* The archives of at most MaxEntries entries named from pool; the entry at
\* position i holds the data <<i>>.
ArchivesOf(pool) ==
    UNION { { [i \in 1..n |-> Entry(names[i], <<i>>)] : names \in [1..n -> pool] } :
            n \in 0..MaxEntries }

\* Entry names: files, files of equal sort key, a directory, signature artifacts.
N_a_z == <<97,47,122>>
N_a_b_c == <<97,45,98,47,99>>
N_a_bc == <<97,47,98,45,99>>
N_a_sub_c == <<97,47,98,47,99>>
N_readme == <<114,101,97,100,109,101,46,116,120,116>>
N_winDir == <<101,92>>
N_x_sf == <<77,69,84,65,45,73,78,70,47,120,46,115,102>>
N_x_rsa == <<77,69,84,65,45,73,78,70,47,120,46,114,115,97>>
N_x_dsa == <<77,69,84,65,45,73,78,70,47,120,46,100,115,97>>
N_X_RSA == <<109,101,116,97,45,105,110,102,47,88,46,82,83,65>>

\* The entry names of the signing runs: "a-b/c" and "a/b-c" have one sort key.
JarPool == {N_a_b_c, N_a_bc, N_dir, P_manifest_mf, N_x_rsa}
\* The entry names of the digest collection: every priority class, nested
\* directories, directory entries and every pattern of the denylist.
OrderPool ==
    {F_install_rdf, F_icon_png, F_LICENSE, N_readme, N_a_z, N_a_b_c, N_a_sub_c, N_dir,
     N_winDir, P_manifest_mf, N_x_sf, N_x_rsa, N_x_dsa, P_ids_json, N_X_RSA}

\* The output path, the signature blob "SIG", the ids payload "{}", the
\* sigpath argument 'sigs/x.der'.
OutPath == <<111,117,116,46,122,105,112>>
Blob == <<83,73,71>>
IdsPayload == <<123,125>>
Sig_x_der == <<115,105,103,115,47,120,46,100,101,114>>

\* make_signed was not called: no arguments.
NoArgs == [outpath |-> None, sigpath |-> None]

\* No JarExtractor object.
NoExtractor == JarExtractor(<<>>, None, None, FALSE, FALSE)

\* No signing run.
JarIdle ==
    /\ zin = <<>>
    /\ fs = [exists |-> FALSE, entries |-> <<>>]
    /\ jpc = "idle"
    /\ self = NoExtractor
    /\ jexc = NoException
    /\ args = NoArgs

\* No grammar run.
ParseIdle ==
    /\ input = Input("none", M_empty, 0, "none", 0, <<>>)
    /\ pc = "idle"
    /\ buf = <<>>
    /\ lines = <<>>
    /\ loc = InitialLocals
    /\ parsed = NoManifest
    /\ out = <<>>

\* A file that is at OutPath before the run.
OldFile == <<Entry(N_f, <<9>>)>>

JarInitOf(pool) ==
    /\ zin \in ArchivesOf(pool)
    /\ fs \in {[exists |-> FALSE, entries |-> <<>>], [exists |-> TRUE, entries |-> OldFile]}
    /\ jpc = "new"
    /\ self = NoExtractor
    /\ jexc = NoException
    /\ args = NoArgs

\* JarExtractor(path, outpath, ids, omit_signature_sections, extra_newlines)
Construct ==
    /\ jpc = "new"
    /\ \E outpath \in {None, OutPath}, ids \in {None, <<>>, IdsPayload},
          omit \in BOOLEAN, extra \in BOOLEAN :
          self' = JarExtractor(zin, outpath, ids, omit, extra)
    /\ jpc' = "built"
    /\ UNCHANGED <<zin, fs, jexc, args>>
    /\ UNCHANGED pvars

\* A read of the property manifest.
ReadManifest ==
    /\ jpc = "built"
    /\ self' = AfterManifest(self)
    /\ UNCHANGED <<zin, fs, jpc, jexc, args>>
    /\ UNCHANGED pvars

\* A read of the property signatures (or of signature, which reads it).
ReadSignatures ==
    /\ jpc = "built"
    /\ self' = AfterSignatures(self)
    /\ UNCHANGED <<zin, fs, jpc, jexc, args>>
    /\ UNCHANGED pvars

\* A make_signed without the test "os.path.exists(outpath)": it writes over
\* the file that is there.
MakeSignedOverwrites ==
    /\ jpc = "built"
    /\ UNCHANGED pvars
    /\ \E outarg \in {None, OutPath}, sigarg \in {None, Sig_x_der} :
        LET outpath == IF Truthy(outarg) THEN outarg ELSE self.outpath IN
        /\ args' = [outpath |-> outarg, sigpath |-> sigarg]
        /\ IF ~Truthy(outpath) THEN
               /\ jexc' = "IOError"
               /\ jpc' = "raised"
               /\ UNCHANGED <<zin, fs, self>>
           ELSE IF ~Truthy(sigarg) THEN
               /\ jexc' = "AttributeError"
               /\ jpc' = "raised"
               /\ UNCHANGED <<zin, fs, self>>
           ELSE LET after == AfterSignatures(self) IN
               /\ \E order \in SortedInfolists(zin) :
                    fs' = [exists |-> TRUE,
                           entries |-> Written(after, zin, order, Blob,
                                               NormalizedSigpath(sigarg))]
               /\ self' = after
               /\ jpc' = "signed"
               /\ UNCHANGED <<zin, jexc>>

\* make_signed(signature, outpath, sigpath) for a signature that is a byte
\* string, as in test_11_make_signed: it has no attribute "filename".
MakeSigned ==
    /\ jpc = "built"
    /\ UNCHANGED pvars
    /\ \E outarg \in {None, OutPath}, sigarg \in {None, Sig_x_der} :
        LET outpath == IF Truthy(outarg) THEN outarg ELSE self.outpath IN
        /\ args' = [outpath |-> outarg, sigpath |-> sigarg]
        /\ IF ~Truthy(outpath) \/ fs.exists THEN
               /\ jexc' = "IOError"
               /\ jpc' = "raised"
               /\ UNCHANGED <<zin, fs, self>>
           ELSE IF ~Truthy(sigarg) THEN
               /\ jexc' = "AttributeError"
               /\ jpc' = "raised"
               /\ UNCHANGED <<zin, fs, self>>
           ELSE LET after == AfterSignatures(self) IN
               /\ \E order \in SortedInfolists(zin) :
                    fs' = [exists |-> TRUE,
                           entries |-> Written(after, zin, order, Blob,
                                               NormalizedSigpath(sigarg))]
               /\ self' = after
               /\ jpc' = "signed"
               /\ UNCHANGED <<zin, jexc>>

JarNext == Construct \/ ReadManifest \/ ReadSignatures \/ MakeSigned

\* The grammar runs.
InitParse == ParseInit /\ JarIdle
SpecParse == InitParse /\ [][ParseNext]_vars

\* The signing runs.
InitJar == JarInitOf(JarPool) /\ ParseIdle
SpecJar == InitJar /\ [][JarNext]_vars

\* The digest collection over archives of every kind of entry name.
\* The signing runs up to the reads of the properties.
SigNext == Construct \/ ReadManifest \/ ReadSignatures
SpecSig == InitJar /\ [][SigNext]_vars

InitOrder == JarInitOf(OrderPool) /\ ParseIdle
OrderNext == Construct
SpecOrder == InitOrder /\ [][OrderNext]_vars

(***************************************************************************)
(* The properties of the grammar, checked under SpecParse.                 *)
(***************************************************************************)
\* A byte string without a whitespace byte.
NoWhitespace(s) == \A i \in 1..Len(s) : ~IsSpace(s[i])

\* A Manifest as the class builds it by default (extra_newline is False) whose
\* Section names hold no whitespace.
PlainManifest(m) ==
    /\ m.klass = "Manifest"
    /\ ~m.extra_newline
    /\ \A i \in 1..Len(m.sections) : NoWhitespace(m.sections[i].name)

\* C1 as stated: for every text T that Manifest.parse accepts, str(parse(T))
\* is T, whatever the order of the algorithm names and of the digest lines.
C1_RoundTripOfAcceptedText == pc = "done" => out = buf

\* C1, amended: the round trip holds for every accepted text T that is the 
\* serialisation str(M) of a Manifest M with the default extra_newline whose
\* Section names hold no whitespace: str(Manifest.parse(str(M))) = str(M).
C1_RoundTripOfSerialised ==
    (pc = "done" /\ input.kind = "object" /\ PlainManifest(input.man)) => out = buf

\* C1: a Manifest with a wrapped name was written, parsed and written again.
C1_Witness ==
    /\ pc = "done"
    /\ input.kind = "object"
    /\ input.man = M_two
    /\ \E i \in 1..Len(lines) : lines[i] # <<>> /\ lines[i][1] = 32
    /\ out = buf

\* The physical lines of the text handed to Manifest.parse, without newlines.
BufLines == TextLines(buf)

\* C2 as stated: for a Section name of any length, every physical line of the
\* serialised Section is at most 72 characters long, every continuation line
\* starts with exactly one space, and Manifest.parse accepts the text and
\* gives back the name.  Checked for the names "n" * k, k up to MaxNameLen.
C2_LineWrap ==
    (input.kind = "object" /\ input.man \in WrapManifests /\ pc # "object") =>
        /\ \A i \in 1..Len(BufLines) : Len(BufLines[i]) <= 72
        /\ \A i \in 1..Len(BufLines) :
              (BufLines[i] # <<>> /\ BufLines[i][1] = 32) =>
                  (Len(BufLines[i]) >= 2 /\ BufLines[i][2] # 32)
        /\ pc # "raised"
        /\ pc \in {"parsed", "done"} =>
              /\ Len(parsed.sections) = 1
              /\ parsed.sections[1].name = input.man.sections[1].name

\* The lines of the text being parsed whose length, newline excluded, is over
\* 72, and those whose length is over 72 once str.rstrip() is applied.
RawLong ==
    {i \in 1..Len(lines) :
        Len(IF lines[i][Len(lines[i])] = 10
            THEN SubSeq(lines[i], 1, Len(lines[i]) - 1) ELSE lines[i]) > 72}
StrippedLong == {i \in 1..Len(lines) : Len(Rstrip(lines[i])) > 72}

\* Manifest.parse accepts the text the input was made from.
BaseAccepted ==
    ParseFrom(InitialLocals, ChainedLines(BaseText(input.base))).exc = NoException

\* C7 as stated: Manifest.parse raises ParsingError, and returns no Manifest,
\* for every text with a physical line longer than 72 characters as it appears
\* in the input, trailing whitespace included.  Checked for the texts made by
\* putting one line into a text that Manifest.parse accepts.
C7_LongLineRaises ==
    (input.kind = "text" /\ BaseAccepted /\ input.op = "ins"
       /\ pc \in {"raised", "parsed", "done"} /\ RawLong # {}) =>
        (pc = "raised" /\ loc.exc = "ParsingError")

\* C7, amended: for every text with a physical line longer than 72 characters
\* once its trailing whitespace is stripped, Manifest.parse never gets past the
\* first such line and returns no Manifest: it raises, and what it raises is
\* ParsingError unless an earlier line made it raise another error.
C7_LongStrippedLineRaises ==
    (pc \in {"parse", "raised", "parsed", "done"} /\ StrippedLong # {}) =>
        /\ pc \in {"parse", "raised"}
        /\ \A i \in StrippedLong : loc.lineno <= i
        /\ pc = "parse" => \A i \in StrippedLong : loc.lineno < i
        /\ (pc = "raised" /\ loc.exc # "ParsingError") =>
              \A i \in StrippedLong : loc.lineno < i

\* C7: the parse of a text with a 73-byte line raised ParsingError at that line.
C7_Witness ==
    /\ pc = "raised"
    /\ loc.exc = "ParsingError"
    /\ input.kind = "text"
    /\ input.line = L_long
    /\ loc.lineno \in StrippedLong

\* C8 as stated: a line beginning with a single space that follows a recognised
\* header line of any kind in the same section is accepted as a continuation of
\* that header's value: Manifest.parse does not raise at such a line.
C8_ContinuationAfterAnyHeader ==
    ~(/\ pc = "raised"
      /\ loc.header \in HeaderNames
      /\ LET line == Rstrip(lines[loc.lineno])
         IN  Len(line) <= 72 /\ Len(line) >= 2 /\ line[1] = 32 /\ line[2] # 32)

\* The input is a text with a section whose Name names a directory, digest
\* lines following it, and is well-formed otherwise: the serialisation of
\* M_dir, or that of M_one with "Name: f" replaced by "Name: d/".
DirectoryInput ==
    /\ input.kind = "text"
    /\ \/ input.base = 4 /\ input.op = "none"
       \/ input.base = 1 /\ input.op = "rep" /\ input.k = 3 /\ input.line = L_dir

\* C9 as stated: a section whose Name value ends in a path separator, with
\* Digest-Algorithms and digest lines following it, makes Manifest.parse raise
\* no error and produce no Section for that name, and the other sections are
\* parsed as usual.
C9_DirectoryNameDropped ==
    DirectoryInput =>
        /\ pc # "raised"
        /\ pc \in {"parsed", "done"} =>
              parsed.sections = (IF input.base = 4 THEN <<M_dir.sections[2]>> ELSE <<>>)

(***************************************************************************)
(* The properties of the signing runs, checked under SpecJar and SpecSig.  *)
(***************************************************************************)
\* C3 as stated: make_signed writes META-INF/<basename>.rsa with the signature
\* blob, then the input entries that match no denylist pattern in their order
\* in the input archive, then META-INF/manifest.mf, then META-INF/<basename>.sf,
\* then META-INF/ids.json if ids were given.
C3_AssemblyOrder ==
    jpc = "signed" =>
        fs.entries = Written(self, zin, zin, Blob, NormalizedSigpath(Sig_x_der))

\* str(JarExtractor(zfile, omit_signature_sections=..., extra_newlines=...).manifest)
ManifestTextOver(zfile, omit, extra) ==
    Str(ManifestProp(JarExtractor(zfile, None, None, omit, extra)))

\* C4 as stated, for the archive written by make_signed without an ids payload:
\* the Manifest text of a JarExtractor over the written archive (the input
\* archive with manifest.mf, <x>.sf and <x>.rsa entries added) is the Manifest
\* text of a JarExtractor over the input archive.
C4_ResignedManifestIsTheSame ==
    (jpc = "signed" /\ self.ids = None) =>
        ManifestTextOver(fs.entries, self.omit_sections, self.extra_newlines)
            = ManifestTextOver(zin, self.omit_sections, self.extra_newlines)

\* The header text of the signatures of this: "Signature-Version: 1.0", the
\* MD5 and SHA1 digests of str(manifest) in base64, a newline after each line.
HeaderText(this) ==
    LinesText(<<T_Signature \o T_Version \o T_1_0,
                <<77,68,53>> \o T_DigestManifest
                    \o B64Encode(Md5(Str(ManifestProp(this)))),
                <<83,72,65,49>> \o T_DigestManifest
                    \o B64Encode(Sha1(Str(ManifestProp(this))))>>
              \o (IF this.extra_newlines THEN << <<>> >> ELSE <<>>))

\* C10: when the JarExtractor was built with omit_signature_sections true,
\* str(signatures) is the text of the property signature: the version line, the
\* MD5-Digest-Manifest line, the SHA1-Digest-Manifest line, each ended by a
\* newline (and the blank line of extra_newlines when it is set); no line of it
\* is a Name line; and the signatures object holds one Section per Section of
\* the manifest, under the same name.
C10_OmissionToggle ==
    (jpc = "built" /\ self.omit_sections /\ self.sig.klass = "Signature") =>
        /\ Str(self.sig) = SignatureProp(self)
        /\ Str(self.sig) = HeaderText(self)
        /\ \A i \in 1..Len(TextLines(Str(self.sig))) :
              ~StartsWith(Lower(TextLines(Str(self.sig))[i]), K_name)
        /\ Len(self.sig.sections) = Len(ManifestProp(self).sections)
        /\ \A i \in 1..Len(self.sig.sections) :
              self.sig.sections[i].name = ManifestProp(self).sections[i].name

\* C10: signatures was read on a JarExtractor built with
\* omit_signature_sections and extra_newlines over an archive of two files;
\* its two Sections are kept and its text is the header alone.
C10_Witness ==
    /\ jpc = "built"
    /\ self.omit_sections
    /\ self.extra_newlines
    /\ self.sig.klass = "Signature"
    /\ Len(self.sig.sections) = 2
    /\ Str(self.sig) = HeaderText(self)

(***************************************************************************)
(* The properties of the digest collection, checked under SpecOrder.       *)
(***************************************************************************)
\* The Sections that JarExtractor.__init__ built from archive entries: all of
\* _digests but the Section of the ids payload, which is appended last.
EntrySections ==
    SubSeq(self.digests, 1, Len(self.digests) - (IF Truthy(self.ids) THEN 1 ELSE 0))

\* name matches a pattern of the denylist when the case of letters is ignored.
MatchesDenylistIgnoringCase(name) ==
    \E glob \in Ignore : Glob(Lower(name), Lower(glob))

\* The number of positions of the sequence seq whose filename / name is name.
EntriesNamed(seq, name) == Cardinality({i \in 1..Len(seq) : seq[i].filename = name})
SectionsNamed(seq, name) == Cardinality({i \in 1..Len(seq) : seq[i].name = name})

\* C5 as stated: after construction no Section built from an archive entry has
\* a name that ends in a path separator or that matches a denylist pattern
\* case-insensitively, and every other archive entry has exactly one Section.
C5_ConstructionExclusion ==
    jpc = "built" =>
        /\ \A i \in 1..Len(EntrySections) :
              /\ ~IsDirectory(EntrySections[i].name)
              /\ ~MatchesDenylistIgnoringCase(EntrySections[i].name)
        /\ \A k \in 1..Len(zin) :
              (~IsDirectory(zin[k].filename)
                 /\ ~MatchesDenylistIgnoringCase(zin[k].filename)) =>
                  SectionsNamed(EntrySections, zin[k].filename)
                      = EntriesNamed(zin, zin[k].filename)

\* The tuple (priority, lowercased directory part, lowercased basename part)
\* of an entry name, and the component by component order of two such tuples.
TupleKey(name) ==
    <<Priority(name), PathSplit(Lower(name))[1], PathSplit(Lower(name))[2]>>
TupleLeq(a, b) ==
    \/ a[1] < b[1]
    \/ a[1] = b[1] /\ StrCmp(a[2], b[2]) < 0
    \/ a[1] = b[1] /\ a[2] = b[2] /\ StrCmp(a[3], b[3]) <= 0

\* The text "<priority>-<directory part>-<basename part>" of an entry name.
JoinedKey(name) ==
    <<48 + TupleKey(name)[1]>> \o <<45>> \o TupleKey(name)[2]
        \o <<45>> \o TupleKey(name)[3]

\* Every byte of s sorts above "-".
AboveDash(s) == \A i \in 1..Len(s) : s[i] > 45

\* C6 as stated: the Sections of the archive entries stand in the order of
\* the tuples (priority, lowercased directory part, lowercased basename part)
\* compared component by component, for all entry names.
C6_TupleOrder ==
    jpc = "built" =>
        \A i, j \in 1..Len(EntrySections) :
            i < j => TupleLeq(TupleKey(EntrySections[i].name),
                              TupleKey(EntrySections[j].name))

\* C6, amended: the Sections of the archive entries stand in the byte order of
\* the texts "<priority>-<lowercased directory part>-<lowercased basename
\* part>"; every entry of a lower priority class precedes every entry of a
\* higher one; and two entries whose directory parts hold only bytes that sort
\* above "-" stand in the order of their tuples, so that among them a directory
\* part that is a strict prefix of another sorts first.
C6_JoinedTextOrder ==
    jpc = "built" =>
        \A i, j \in 1..Len(EntrySections) :
            i < j =>
                LET a == EntrySections[i].name
                    b == EntrySections[j].name
                IN  /\ StrCmp(JoinedKey(a), JoinedKey(b)) <= 0
                    /\ Priority(a) <= Priority(b)
                    /\ (AboveDash(TupleKey(a)[2]) /\ AboveDash(TupleKey(b)[2])) =>
                          TupleLeq(TupleKey(a), TupleKey(b))

\* C6: an archive that holds "a/b/c" before "a/z" was sorted: the directory
\* part that is a strict prefix of the other came first, against the archive's
\* order.
C6_Witness ==
    /\ jpc = "built"
    /\ Len(zin) = 2
    /\ zin[1].filename = N_a_sub_c
    /\ zin[2].filename = N_a_z
    /\ Len(EntrySections) = 2
    /\ EntrySections[1].name = N_a_z
    /\ EntrySections[2].name = N_a_sub_c

(***************************************************************************)
(* The properties of make_signed, checked under SpecJar.                   *)
(***************************************************************************)
\* C11: a make_signed call with no output path (none as argument, none given
\* at construction) or with a file already at the output path raises an error
\* (IOError) and writes nothing: the file at the output path, if there is one,
\* is as it was, and no archive entry is written.
C11_OutputConflict ==
    [][(jpc = "built" /\ jpc' # "built"
          /\ (fs.exists \/ (~Truthy(args'.outpath) /\ ~Truthy(self.outpath))))
         => (jpc' = "raised" /\ jexc' = "IOError" /\ fs' = fs)]_vars

\* C11: make_signed was called with an output path at which a file exists; it
\* raised IOError and the file holds what it held.
C11_Witness ==
    /\ jpc = "raised"
    /\ jexc = "IOError"
    /\ Truthy(args.outpath)
    /\ fs.exists
    /\ fs.entries = OldFile
    /\ Len(zin) = 2


\* C12 as stated: for every ids payload given at construction, the empty byte
\* string included, the archive written by make_signed has a META-INF/ids.json
\* entry if and only if the last Section of the manifest is named
\* META-INF/ids.json and holds the digests of the payload bytes.
C12_IdsConsistency ==
    (jpc = "signed" /\ self.ids # None) =>
        LET sections == self.manifest.sections
            last == sections[Len(sections)]
        IN  (\E i \in 1..Len(fs.entries) : fs.entries[i].filename = P_ids_json)
            <=> (/\ sections # <<>>
                 /\ last.name = P_ids_json
                 /\ last.digests = Digest(self.ids))

=============================================================================
